---- MODULE Spec2Model ----
(***************************************************************************)
(* The file catalogue of ed2kd (src/db_sqlite.c): the files / sources /     *)
(* fnames tables with their triggers, the five prepared statements, and     *)
(* the search compiler and executor of db_search_files.                     *)
(***************************************************************************)
EXTENDS Integers, Sequences, FiniteSets, Bags, TLC

VARIABLES files, sources, fnames, last, thr, srch

vars == <<files, sources, fnames, last, thr, srch>>

(***************************************************************************)
(* 64-bit unsigned integers: four 16-bit limbs, least significant first.   *)
(***************************************************************************)
Limb == 65536

U64Zero == <<0, 0, 0, 0>>

\* reduce four unnormalised limbs modulo 2^64 (carries and borrows propagate up)
U64Norm(x0, x1, x2, x3) ==
    LET c0 == x0 \div Limb
        y1 == x1 + c0
        c1 == y1 \div Limb
        y2 == x2 + c1
        c2 == y2 \div Limb
        y3 == x3 + c2
    IN  <<x0 % Limb, y1 % Limb, y2 % Limb, y3 % Limb>>

\* one round of sdbm: c + (hash << 6) + (hash << 16) - hash
sdbm_step(hash, c) ==
    U64Norm(c + 64 * hash[1] - hash[1],
            64 * hash[2] + hash[1] - hash[2],
            64 * hash[3] + hash[2] - hash[3],
            64 * hash[4] + hash[3] - hash[4])

RECURSIVE sdbm_from(_, _, _, _)
sdbm_from(str, length, i, hash) ==
    IF i > length THEN hash
    ELSE sdbm_from(str, length, i + 1, sdbm_step(hash, str[i]))

sdbm(str, length) == sdbm_from(str, length, 1, U64Zero)

HASH_LEN == 16

MAKE_FID(x) == sdbm(x, HASH_LEN)

\* MAKE_SID as it would be with the id shifted by 16 bits only
MAKE_SID_shift16(x) == <<x.port, x.id[1], x.id[2], 0>>

\* a client id is a uint32 <<low 16 bits, high 16 bits>>, a port a uint16
MAKE_SID(x) == <<x.port, 0, x.id[1], x.id[2]>>

GET_SID_ID(sid) == <<sid[3], sid[4]>>

GET_SID_PORT(sid) == sid[1]

(***************************************************************************)
(* Inputs                                                                  *)
(***************************************************************************)
H1 == <<1, 2, 3, 4, 5, 6, 7, 8, 9, 10, 11, 12, 13, 14, 15, 16>>
H2 == <<255, 0, 255, 0, 255, 0, 255, 0, 255, 0, 255, 0, 255, 0, 255, 255>>

Hashes == {H1, H2}

\* MAKE_FID over the hashes of the model, tabulated
FidOf == [h \in Hashes |-> MAKE_FID(h)]

Fids == {FidOf[h] : h \in Hashes}

\* 10.0.0.1:4662 and 10.0.0.2:4662
Owners == {[id |-> <<1, 2560>>, port |-> 4662], [id |-> <<2, 2560>>, port |-> 4662]}

\* the metadata of an announcement
Metas ==
    {[name |-> "song.mp3", name_len |-> 8, size |-> 5000, type |-> 1,
      media_length |-> 180, media_bitrate |-> 128, media_codec |-> "mp3"],
     [name |-> "clip.avi", name_len |-> 8, size |-> 7000, type |-> 2,
      media_length |-> 60, media_bitrate |-> 900, media_codec |-> "xvid"]}

\* what a source says of its copy: complete or not, rated (1..5) or not (0)
Attrs == {[complete |-> 1, rating |-> 0], [complete |-> 0, rating |-> 3]}

\* an announcement with an empty name: db_share_files reads nothing else of it
NoName ==
    [hash |-> H1, name |-> "", name_len |-> 0, size |-> 5000, type |-> 1,
     complete |-> 1, rating |-> 3, media_length |-> 0, media_bitrate |-> 0,
     media_codec |-> ""]

PubFiles ==
    {[hash |-> h, name |-> m.name, name_len |-> m.name_len, size |-> m.size,
      type |-> m.type, complete |-> a.complete, rating |-> a.rating,
      media_length |-> m.media_length, media_bitrate |-> m.media_bitrate,
      media_codec |-> m.media_codec] :
        h \in Hashes, m \in Metas, a \in Attrs} \cup {NoName}

MaxBatch == 2

MaxSources == 2

MaxCount == 2

\* the *count a caller passes to db_get_sources and db_search_files
Counts == 0..MaxCount

Batches == UNION {[1..n -> PubFiles] : n \in 1..MaxBatch}

\* the entries db_share_files does not skip
NonEmpty(batch) == Cardinality({i \in DOMAIN batch : batch[i].name_len # 0})

\* the batches that insert k sources rows
BatchesOf == [k \in 0..MaxBatch |-> {b \in Batches : NonEmpty(b) = k}]

\* the extension of a name, without the dot ("" when there is none)
file_extension(name) ==
    CASE name = "song.mp3" -> "mp3"
      [] name = "clip.avi" -> "avi"
      [] OTHER -> ""

(***************************************************************************)
(* The tables.  files: fid -> row (fid is the primary key); sources: the   *)
(* rows in storage order, duplicates allowed; fnames: a bag of index       *)
(* entries [docid, name].                                                  *)
(***************************************************************************)
Drop(f, k) == [x \in DOMAIN f \ {k} |-> f[x]]

Put(f, k, v) == [x \in DOMAIN f \cup {k} |-> IF x = k THEN v ELSE f[x]]

EmptyDb == [files |-> <<>>, sources |-> <<>>, fnames |-> EmptyBag]

db == [files |-> files, sources |-> sources, fnames |-> fnames]

\* DELETE FROM fnames WHERE docid=?
fnames_delete(fn, docid) == [e \in {x \in DOMAIN fn : x.docid # docid} |-> fn[e]]

\* INSERT INTO fnames(docid, name) VALUES(?, ?)
fnames_insert(fn, docid, name) == fn (+) SetToBag({[docid |-> docid, name |-> name]})

\* trigger files_fts3, BEFORE DELETE ON files
files_fts3(d, fid) == [d EXCEPT !.fnames = fnames_delete(@, fid)]

\* DELETE FROM files WHERE fid=?  (with its trigger files_fts3)
files_delete(d, fid) ==
    IF fid \in DOMAIN d.files
    THEN [files_fts3(d, fid) EXCEPT !.files = Drop(@, fid)]
    ELSE d

\* files_au as it would be without its DELETE
files_au_keeps_row(d, fid) == d

\* trigger files_au, AFTER UPDATE ON files WHEN new.srcavail=0
files_au(d, fid) ==
    IF fid \in DOMAIN d.files /\ d.files[fid].srcavail = 0
    THEN files_delete(d, fid)
    ELSE d

\* the rated_count of trigger sources_ai
ai_rated_count(rated_count, rating) ==
    IF rating # 0 THEN rated_count + 1 ELSE 0

\* trigger sources_ai, AFTER INSERT ON sources
sources_ai(d, new) ==
    IF new.fid \in DOMAIN d.files
    THEN files_au([d EXCEPT !.files[new.fid] =
                      [@ EXCEPT !.srcavail = @ + 1,
                                !.srccomplete = @ + new.complete,
                                !.rating = @ + new.rating,
                                !.rated_count = ai_rated_count(@, new.rating)]],
                  new.fid)
    ELSE d

\* the rated_count of trigger sources_bd
bd_rated_count(rated_count, rating) ==
    IF rating # 0 THEN rated_count - 1 ELSE rated_count

\* sources_bd as it would be if it forgot srccomplete
sources_bd_keeps_complete(d, old) ==
    IF old.fid \in DOMAIN d.files
    THEN files_au([d EXCEPT !.files[old.fid] =
                      [@ EXCEPT !.srcavail = @ - 1,
                                !.rating = @ - old.rating,
                                !.rated_count = bd_rated_count(@, old.rating)]],
                  old.fid)
    ELSE d

\* trigger sources_bd, BEFORE DELETE ON sources
sources_bd(d, old) ==
    IF old.fid \in DOMAIN d.files
    THEN files_au([d EXCEPT !.files[old.fid] =
                      [@ EXCEPT !.srcavail = @ - 1,
                                !.srccomplete = @ - old.complete,
                                !.rating = @ - old.rating,
                                !.rated_count = bd_rated_count(@, old.rating)]],
                  old.fid)
    ELSE d

\* the columns statement SHARE_UPD sets
share_upd_set(row, f) ==
    [row EXCEPT !.name = f.name, !.ext = file_extension(f.name), !.size = f.size,
                !.type = f.type, !.mlength = f.media_length,
                !.mbitrate = f.media_bitrate, !.mcodec = f.media_codec]

\* SHARE_UPD as it would be if sqlite3_changes() reported no row
share_upd_no_changes(d, fid, f) == {[db |-> d, changes |-> 0]}

\* statement SHARE_UPD with triggers files_fts1, files_au, files_fts2: the
\* set of its outcomes.  SQLite leaves the order of the two AFTER UPDATE
\* triggers undefined: au_first is files_au firing before files_fts2.
\* changes is what sqlite3_changes() reports, the rows the statement itself
\* updated.
share_upd(d, fid, f) ==
    IF fid \notin DOMAIN d.files
    THEN {[db |-> d, changes |-> 0]}
    ELSE
        LET old     == d.files[fid]
            renamed == f.name # old.name
            d1 == IF renamed THEN [d EXCEPT !.fnames = fnames_delete(@, fid)] ELSE d
            d2 == [d1 EXCEPT !.files[fid] = share_upd_set(@, f)]
            fts2(x) == IF renamed
                       THEN [x EXCEPT !.fnames = fnames_insert(@, fid, f.name)]
                       ELSE x
        IN  {[db |-> IF au_first THEN fts2(files_au(d2, fid)) ELSE files_au(fts2(d2), fid),
              changes |-> 1] : au_first \in BOOLEAN}

\* the row statement SHARE_INS writes; the counters take their DEFAULT 0
share_ins_row(f) ==
    [hash |-> f.hash, name |-> f.name, ext |-> file_extension(f.name),
     size |-> f.size, type |-> f.type, srcavail |-> 0, srccomplete |-> 0,
     rating |-> 0, rated_count |-> 0, mlength |-> f.media_length,
     mbitrate |-> f.media_bitrate, mcodec |-> f.media_codec]

\* statement SHARE_INS, INSERT OR REPLACE: a row with the same fid is replaced
\* without its delete triggers firing; trigger files_fts4 fires after the insert
share_ins(d, fid, f) ==
    [d EXCEPT !.files = Put(@, fid, share_ins_row(f)),
              !.fnames = fnames_insert(@, fid, f.name)]

\* statement SHARE_SRC with trigger sources_ai
share_src(d, fid, f, owner) ==
    LET new == [fid |-> fid, sid |-> MAKE_SID(owner),
                complete |-> f.complete, rating |-> f.rating]
    IN  sources_ai([d EXCEPT !.sources = Append(@, new)], new)

RECURSIVE remove_rows(_, _)
remove_rows(d, rows) ==
    IF rows = <<>> THEN d
    ELSE remove_rows(sources_bd(d, Head(rows)), Tail(rows))

\* statement REMOVE_SRC, DELETE FROM sources WHERE sid=?, trigger sources_bd
\* firing before each row goes
remove_src(d, sid) ==
    LET gone == SelectSeq(d.sources, LAMBDA r : r.sid = sid)
        d1   == remove_rows(d, gone)
    IN  [d1 EXCEPT !.sources = SelectSeq(d.sources, LAMBDA r : r.sid # sid)]

\* the metadata of announcement f is what row already holds
same_meta(row, f) ==
    /\ row.hash = f.hash /\ row.name = f.name /\ row.size = f.size
    /\ row.type = f.type /\ row.mlength = f.media_length
    /\ row.mbitrate = f.media_bitrate /\ row.mcodec = f.media_codec

\* the entry as it would be handled if an empty name were not skipped
share_one_no_skip(r, f, owner) ==
    LET fid == FidOf[f.hash]
    IN  {[db |-> share_src(IF u.changes = 0 THEN share_ins(u.db, fid, f) ELSE u.db,
                           fid, f, owner),
          ret |-> 1,
          trace |-> Append(r.trace, [fid |-> fid, path |-> "SHARE_UPD", same |-> FALSE])] :
            u \in share_upd(r.db, fid, f)}

\* one entry of the batch of db_share_files, no statement failing: the set
\* of its outcomes.  trace notes, for every entry not skipped, the statement
\* that wrote the files row and whether a row with the same metadata was
\* there before
share_one(r, f, owner) ==
    IF f.name_len = 0 THEN {r}
    ELSE
        LET fid == FidOf[f.hash]
            t(ins) == [fid |-> fid, path |-> IF ins THEN "SHARE_INS" ELSE "SHARE_UPD",
                       same |-> fid \in DOMAIN r.db.files /\ same_meta(r.db.files[fid], f)]
        IN  {[db |-> share_src(IF u.changes = 0 THEN share_ins(u.db, fid, f) ELSE u.db,
                               fid, f, owner),
              ret |-> 1,
              trace |-> Append(r.trace, t(u.changes = 0))] : u \in share_upd(r.db, fid, f)}

RECURSIVE share_from(_, _, _, _)
share_from(rs, batch, i, owner) ==
    IF i > Len(batch) THEN rs
    ELSE share_from(UNION {share_one(r, batch[i], owner) : r \in rs}, batch, i + 1, owner)

\* db_share_files, every DB_CHECK passing: the set of its outcomes
db_share_files(d, batch, owner) ==
    share_from({[db |-> d, ret |-> 1, trace |-> <<>>]}, batch, 1, owner)

\* db_remove_source returning 1
db_remove_source(d, clnt) == remove_src(d, MAKE_SID(clnt))

Min(a, b) == IF a < b THEN a ELSE b

\* db_get_sources as it would be with neither LIMIT nor i < *count
db_get_sources_unlimited(d, hash, count) ==
    LET rows == SelectSeq(d.sources, LAMBDA r : r.fid = FidOf[hash])
    IN  [ret |-> 1, count |-> Len(rows),
         sources |-> [i \in 1..Len(rows) |-> [ip |-> GET_SID_ID(rows[i].sid),
                                              port |-> GET_SID_PORT(rows[i].sid)]]]

\* statement GET_SRC and the loop of db_get_sources: the first *count rows
db_get_sources(d, hash, count) ==
    LET rows == SelectSeq(d.sources, LAMBDA r : r.fid = FidOf[hash])
        n    == Min(Len(rows), count)
    IN  [ret |-> 1, count |-> n,
         sources |-> [i \in 1..n |-> [ip |-> GET_SID_ID(rows[i].sid),
                                      port |-> GET_SID_PORT(rows[i].sid)]]]

SrcRows(srcs, fid) == SelectSeq(srcs, LAMBDA r : r.fid = fid)

(***************************************************************************)
(* One worker thread, every call running to completion.                    *)
(***************************************************************************)
Idle == [op |-> "none"]

Init ==
    /\ files = <<>>
    /\ sources = <<>>
    /\ fnames = EmptyBag
    /\ last = Idle
    /\ thr = <<>>
    /\ srch = <<>>

ShareFiles ==
    \E k \in 0..Min(MaxBatch, MaxSources - Len(sources)) :
    \E batch \in BatchesOf[k], owner \in Owners :
    \E r \in db_share_files(db, batch, owner) :
        /\ files' = r.db.files
        /\ sources' = r.db.sources
        /\ fnames' = r.db.fnames
        /\ last' = [op |-> "share", ret |-> r.ret, trace |-> r.trace]
        /\ UNCHANGED <<thr, srch>>

RemoveSource ==
    \E clnt \in Owners :
        /\ LET d == db_remove_source(db, clnt) IN
            /\ files' = d.files
            /\ sources' = d.sources
            /\ fnames' = d.fnames
            /\ last' = [op |-> "remove", ret |-> 1,
                        gone |-> {f \in Fids :
                                     /\ SrcRows(sources, f) # <<>>
                                     /\ SrcRows(d.sources, f) = <<>>}]
        /\ UNCHANGED <<thr, srch>>

GetSources ==
    \E hash \in Hashes, count \in Counts :
        /\ last' = [op |-> "get", hash |-> hash, max |-> count,
                    out |-> db_get_sources(db, hash, count)]
        /\ UNCHANGED <<files, sources, fnames, thr, srch>>

Next == ShareFiles \/ RemoveSource \/ GetSources

Spec == Init /\ [][Next]_vars

(***************************************************************************)
(* Worker threads, each on its own connection to the shared cache: every   *)
(* statement of db_share_files is a step of its own, so the statements of  *)
(* two calls interleave, and any DB_CHECK may fail and end the call.       *)
(***************************************************************************)
Threads == {1, 2}

\* the longest batch a call of an interleaved run announces
MaxConcBatch == 1

\* the calls of an interleaved run
MaxConcCalls == 3

\* the first entry of batch from index i on that is not skipped (0: none)
next_entry(batch, i) ==
    LET js == {j \in i..Len(batch) : batch[j].name_len # 0}
    IN  IF js = {} THEN 0 ELSE CHOOSE j \in js : \A k \in js : j <= k

\* the sources rows thread t has yet to insert
Pending(t) ==
    IF thr[t].pc = "idle" THEN 0
    ELSE Cardinality({j \in thr[t].i..Len(thr[t].batch) : thr[t].batch[j].name_len # 0})

RECURSIVE PendingAll(_)
PendingAll(ts) ==
    IF ts = {} THEN 0
    ELSE LET t == CHOOSE x \in ts : TRUE IN Pending(t) + PendingAll(ts \ {t})

ConcInit ==
    /\ files = <<>>
    /\ sources = <<>>
    /\ fnames = EmptyBag
    /\ last = [op |-> "threads", failed |-> FALSE, calls |-> 0]
    /\ thr = [t \in Threads |-> [pc |-> "idle"]]
    /\ srch = <<>>

SetDb(d) ==
    /\ files' = d.files
    /\ sources' = d.sources
    /\ fnames' = d.fnames

\* thread t goes on to entry j of its batch, or returns 1 when there is none
Advance(t, batch, owner, j) ==
    thr' = [thr EXCEPT ![t] =
               IF j = 0 THEN [pc |-> "idle"]
               ELSE [pc |-> "upd", batch |-> batch, i |-> j, owner |-> owner]]

\* db_share_files is entered: the loop skips to the first named entry
CallShare(t) ==
    /\ thr[t].pc = "idle"
    /\ last.calls < MaxConcCalls
    /\ \E k \in 0..Min(MaxBatch, MaxSources - Len(sources) - PendingAll(Threads)) :
       \E batch \in {b \in BatchesOf[k] : Len(b) <= MaxConcBatch}, owner \in Owners :
            Advance(t, batch, owner, next_entry(batch, 1))
    /\ last' = [last EXCEPT !.calls = @ + 1]
    /\ UNCHANGED <<files, sources, fnames, srch>>

\* sqlite3_step(SHARE_UPD) and sqlite3_changes()
StepUpd(t) ==
    /\ thr[t].pc = "upd"
    /\ LET f == thr[t].batch[thr[t].i] IN
       \E u \in share_upd(db, FidOf[f.hash], f) :
            /\ SetDb(u.db)
            /\ thr' = [thr EXCEPT ![t].pc = IF u.changes = 0 THEN "ins" ELSE "src"]
    /\ UNCHANGED <<last, srch>>

\* sqlite3_step(SHARE_INS)
StepIns(t) ==
    /\ thr[t].pc = "ins"
    /\ LET f == thr[t].batch[thr[t].i] IN SetDb(share_ins(db, FidOf[f.hash], f))
    /\ thr' = [thr EXCEPT ![t].pc = "src"]
    /\ UNCHANGED <<last, srch>>

\* sqlite3_step(SHARE_SRC), then the next entry
StepSrc(t) ==
    /\ thr[t].pc = "src"
    /\ LET f == thr[t].batch[thr[t].i] IN
        /\ SetDb(share_src(db, FidOf[f.hash], f, thr[t].owner))
        /\ Advance(t, thr[t].batch, thr[t].owner, next_entry(thr[t].batch, thr[t].i + 1))
    /\ UNCHANGED <<last, srch>>

\* a DB_CHECK of the statement at hand fails: db_share_files returns 0
StepFail(t) ==
    /\ thr[t].pc # "idle"
    /\ thr' = [thr EXCEPT ![t] = [pc |-> "idle"]]
    /\ last' = [last EXCEPT !.failed = TRUE]
    /\ UNCHANGED <<files, sources, fnames, srch>>

\* db_remove_source: its one statement
CallRemove(t) ==
    /\ thr[t].pc = "idle"
    /\ last.calls < MaxConcCalls
    /\ \E clnt \in Owners : SetDb(db_remove_source(db, clnt))
    /\ last' = [last EXCEPT !.calls = @ + 1]
    /\ UNCHANGED <<thr, srch>>

ConcNext ==
    \E t \in Threads :
        \/ CallShare(t)
        \/ StepUpd(t)
        \/ StepIns(t)
        \/ StepSrc(t)
        \/ StepFail(t)
        \/ CallRemove(t)

SpecConc == ConcInit /\ [][ConcNext]_vars

(***************************************************************************)
(* One worker thread whose writes may fail: a DB_CHECK of db_share_files   *)
(* fails at an entry of the batch and the call goes to failed: and returns *)
(* 0.  A statement that fails writes nothing; the statements before it     *)
(* are committed, each on its own.                                         *)
(***************************************************************************)
\* the announcements of the batches: song.mp3, clip.avi and an entry with
\* no name
BatchFiles ==
    {f \in PubFiles :
        /\ f.complete = 1
        /\ f.name_len = 0 \/ ((f.hash = H1) <=> (f.name = "song.mp3"))}

BatchesUpTo(n) == UNION {[1..m -> BatchFiles] : m \in 1..n}

\* the peer that announces them: 10.0.0.1:4662
BatchOwners == {o \in Owners : o.id[1] = 1}

\* entry f of the batch, a DB_CHECK failing in it: the statement at which it
\* fails and what the statements before it left
share_one_failing(r, f, owner) ==
    IF f.name_len = 0 THEN {}
    ELSE
        LET fid == FidOf[f.hash]
            upd == share_upd(r.db, fid, f)
        IN  {[db |-> r.db, at |-> "SHARE_UPD"]}
            \cup {[db |-> u.db, at |-> "SHARE_INS"] : u \in {x \in upd : x.changes = 0}}
            \cup {[db |-> IF u.changes = 0 THEN share_ins(u.db, fid, f) ELSE u.db,
                   at |-> "SHARE_SRC"] : u \in upd}

\* the loop of db_share_files from entry i on, one of the entries failing
RECURSIVE share_failing_from(_, _, _, _)
share_failing_from(rs, batch, i, owner) ==
    IF i > Len(batch) THEN {}
    ELSE UNION {{[db |-> x.db, ret |-> 0, trace |-> r.trace, k |-> i, at |-> x.at] :
                    x \in share_one_failing(r, batch[i], owner)} : r \in rs}
         \cup share_failing_from(UNION {share_one(r, batch[i], owner) : r \in rs},
                                 batch, i + 1, owner)

\* db_share_files as it would be if failed: rolled the batch back
db_share_files_rolled_back(d, batch, owner) ==
    {[x EXCEPT !.db = d] :
        x \in share_failing_from({[db |-> d, ret |-> 1, trace |-> <<>>]}, batch, 1, owner)}

\* db_share_files returning 0: the set of its outcomes
db_share_files_failed(d, batch, owner) ==
    share_failing_from({[db |-> d, ret |-> 1, trace |-> <<>>]}, batch, 1, owner)

BatchInit == Init

\* db_share_files returns 1
BatchShare ==
    \E batch \in BatchesUpTo(MaxBatch), owner \in BatchOwners :
        /\ Len(sources) + NonEmpty(batch) <= MaxSources
        /\ \E r \in db_share_files(db, batch, owner) :
            /\ SetDb(r.db)
            /\ last' = [op |-> "share", ret |-> 1, trace |-> r.trace, batch |-> batch,
                        owner |-> owner, k |-> 0, at |-> "none"]
        /\ UNCHANGED <<thr, srch>>

\* db_share_files returns 0
BatchFail ==
    \E batch \in BatchesUpTo(MaxBatch), owner \in BatchOwners :
        /\ Len(sources) + NonEmpty(batch) <= MaxSources
        /\ \E r \in db_share_files_failed(db, batch, owner) :
            /\ SetDb(r.db)
            /\ last' = [op |-> "share", ret |-> 0, trace |-> r.trace, batch |-> batch,
                        owner |-> owner, k |-> r.k, at |-> r.at]
        /\ UNCHANGED <<thr, srch>>

BatchNext == BatchShare \/ BatchFail \/ RemoveSource

SpecBatch == BatchInit /\ [][BatchNext]_vars

(***************************************************************************)
(* One worker thread, a peer announcing a file it has already announced.   *)
(* last follows the peer from its first announcement of the file to its    *)
(* db_remove_source: before holds the counters of the files row as they    *)
(* were when the peer had not announced the file yet.                      *)
(***************************************************************************)
\* srcavail, srccomplete, rating and rated_count of the files row of fid; a
\* file without a row has no source
Counters(d, fid) ==
    IF fid \in DOMAIN d.files
    THEN [srcavail |-> d.files[fid].srcavail, srccomplete |-> d.files[fid].srccomplete,
          rating |-> d.files[fid].rating, rated_count |-> d.files[fid].rated_count]
    ELSE [srcavail |-> 0, srccomplete |-> 0, rating |-> 0, rated_count |-> 0]

\* the sources rows of fid that peer clnt owns
OwnRows(srcs, fid, clnt) ==
    SelectSeq(srcs, LAMBDA r : r.fid = fid /\ r.sid = MAKE_SID(clnt))

\* the announcements db_share_files does not skip
NamedFiles == {f \in PubFiles : f.name_len # 0}

\* the peer of last is between its first announcement and its removal
Announcing == last.op \in {"first", "again", "get"}

DupInit == Init

\* db_share_files of one file by any peer
DupShare ==
    /\ ~Announcing
    /\ Len(sources) < MaxSources
    /\ \E f \in NamedFiles, owner \in Owners :
       \E r \in db_share_files(db, <<f>>, owner) :
           /\ files' = r.db.files
           /\ sources' = r.db.sources
           /\ fnames' = r.db.fnames
           /\ last' = [op |-> "share"]
           /\ UNCHANGED <<thr, srch>>

\* db_share_files of a file by a peer that has no sources row of it
DupFirst ==
    /\ ~Announcing
    /\ \E f \in NamedFiles, owner \in Owners :
           /\ OwnRows(sources, FidOf[f.hash], owner) = <<>>
           /\ \E r \in db_share_files(db, <<f>>, owner) :
                  /\ files' = r.db.files
                  /\ sources' = r.db.sources
                  /\ fnames' = r.db.fnames
                  /\ last' = [op |-> "first", peer |-> owner, hash |-> f.hash,
                              before |-> Counters(db, FidOf[f.hash]),
                              first |-> Counters(r.db, FidOf[f.hash])]
           /\ UNCHANGED <<thr, srch>>

\* db_share_files of the same file by the same peer
DupAgain ==
    /\ last.op = "first"
    /\ \E f \in NamedFiles :
           /\ f.hash = last.hash
           /\ \E r \in db_share_files(db, <<f>>, last.peer) :
                  /\ files' = r.db.files
                  /\ sources' = r.db.sources
                  /\ fnames' = r.db.fnames
                  /\ last' = [last EXCEPT !.op = "again"]
           /\ UNCHANGED <<thr, srch>>

\* db_get_sources of the file announced twice
DupGet ==
    /\ last.op = "again"
    /\ \E count \in Counts :
           last' = [op |-> "get", peer |-> last.peer, hash |-> last.hash,
                    before |-> last.before, first |-> last.first, max |-> count,
                    out |-> db_get_sources(db, last.hash, count)]
    /\ UNCHANGED <<files, sources, fnames, thr, srch>>

\* db_remove_source of the peer that announced the file twice
DupRemove ==
    /\ last.op \in {"again", "get"}
    /\ LET d == db_remove_source(db, last.peer) IN
           /\ files' = d.files
           /\ sources' = d.sources
           /\ fnames' = d.fnames
           /\ last' = [op |-> "removed", peer |-> last.peer, hash |-> last.hash,
                       before |-> last.before,
                       gone |-> Len(sources) - Len(d.sources)]
    /\ UNCHANGED <<thr, srch>>

DupNext == DupShare \/ DupFirst \/ DupAgain \/ DupGet \/ DupRemove

SpecDup == DupInit /\ [][DupNext]_vars

(***************************************************************************)
(* db_open and db_close on one thread.  thr is the thread's s_db and       *)
(* s_stmt: a template is "null" (the pointer is 0), "live" (compiled) or   *)
(* "stale" (finalized, the pointer still set).  sqlite3_finalize of a      *)
(* stale pointer is a use after free: the thread goes on or crashes.       *)
(***************************************************************************)
STMT_COUNT == 5

Templates == 1..STMT_COUNT

\* the loop of db_close over templates i..STMT_COUNT: s_stmt is not written
RECURSIVE close_from(_, _)
close_from(c, i) ==
    IF i > STMT_COUNT THEN c
    ELSE close_from(
             IF c.s_stmt[i] = "null" THEN c
             ELSE [c EXCEPT !.s_stmt[i] = "stale",
                            !.finalized = @ \cup {i},
                            !.twice = @ \cup (IF c.s_stmt[i] = "stale" THEN {i} ELSE {})],
             i + 1)

\* db_close: finalize every template whose pointer is set, close the handle
db_close(t) ==
    LET c == close_from([s_stmt |-> t.s_stmt, finalized |-> {}, twice |-> {}], 1)
    IN  [thr |-> [t EXCEPT !.s_stmt = c.s_stmt, !.s_db = "closed"],
         finalized |-> c.finalized, twice |-> c.twice]

\* the sqlite3_prepare_v2 calls of db_open, the first n of them succeeding:
\* a failing one sets its pointer to 0
prepared(s_stmt, n) ==
    [i \in Templates |-> IF i <= n THEN "live" ELSE IF i = n + 1 THEN "null" ELSE s_stmt[i]]

OpenInit ==
    /\ files = <<>>
    /\ sources = <<>>
    /\ fnames = EmptyBag
    /\ srch = <<>>
    /\ thr = [s_db |-> "closed", s_stmt |-> [i \in Templates |-> "null"], crashed |-> FALSE]
    /\ last = [op |-> "none", ret |-> 1, finalized |-> {}, twice |-> {}]

\* db_open returns 1
OpenOk ==
    /\ ~thr.crashed
    /\ thr' = [thr EXCEPT !.s_db = "open", !.s_stmt = prepared(@, STMT_COUNT)]
    /\ last' = [op |-> "db_open", ret |-> 1, finalized |-> {}, twice |-> {}]
    /\ UNCHANGED <<files, sources, fnames, srch>>

\* sqlite3_open_v2 fails: db_open returns 0 at once
OpenNoHandle ==
    /\ ~thr.crashed
    /\ last' = [op |-> "db_open", ret |-> 0, finalized |-> {}, twice |-> {}]
    /\ UNCHANGED <<files, sources, fnames, srch, thr>>

\* sqlite3_prepare_v2 of template k fails: goto failed, db_close, return 0
OpenFail ==
    /\ ~thr.crashed
    /\ \E k \in Templates, crash \in BOOLEAN :
        LET c == db_close([thr EXCEPT !.s_db = "open", !.s_stmt = prepared(@, k - 1)])
        IN  /\ crash => c.twice # {}
            /\ thr' = [c.thr EXCEPT !.crashed = crash]
            /\ last' = [op |-> "db_open", ret |-> 0,
                        finalized |-> c.finalized, twice |-> c.twice]
    /\ UNCHANGED <<files, sources, fnames, srch>>

\* db_close called by the thread
Close ==
    /\ ~thr.crashed
    /\ \E crash \in BOOLEAN :
        LET c == db_close(thr)
        IN  /\ crash => c.twice # {}
            /\ thr' = [c.thr EXCEPT !.crashed = crash]
            /\ last' = [op |-> "db_close", ret |-> 1,
                        finalized |-> c.finalized, twice |-> c.twice]
    /\ UNCHANGED <<files, sources, fnames, srch>>

OpenNext == OpenOk \/ OpenNoHandle \/ OpenFail \/ Close

SpecOpen == OpenInit /\ [][OpenNext]_vars

(***************************************************************************)
(* The source id of a peer: MAKE_SID packs it, GET_SID_ID and GET_SID_PORT *)
(* unpack it.                                                              *)
(***************************************************************************)
\* 16-bit values at the ends and in the middle of the range
SidLimbs == {0, 1, 255, 256, 32768, 65535}

\* the peers packed: every id and port made of them
SidPeers == {[id |-> <<lo, hi>>, port |-> p] : lo \in SidLimbs, hi \in SidLimbs, p \in SidLimbs}

SidInit ==
    /\ files = <<>>
    /\ sources = <<>>
    /\ fnames = EmptyBag
    /\ srch = <<>>
    /\ thr = <<>>
    /\ \E x \in SidPeers : last = [op |-> "peer", x |-> x]

\* sid = MAKE_SID(x)
Pack ==
    /\ last.op = "peer"
    /\ last' = [op |-> "packed", x |-> last.x, sid |-> MAKE_SID(last.x)]
    /\ UNCHANGED <<files, sources, fnames, thr, srch>>

\* GET_SID_ID(sid), GET_SID_PORT(sid)
Unpack ==
    /\ last.op = "packed"
    /\ last' = [op |-> "unpacked", x |-> last.x, sid |-> last.sid,
                id |-> GET_SID_ID(last.sid), port |-> GET_SID_PORT(last.sid)]
    /\ UNCHANGED <<files, sources, fnames, thr, srch>>

SidNext == Pack \/ Unpack

SpecSid == SidInit /\ [][SidNext]_vars

(***************************************************************************)
(* The search of the index: fnames MATCH ? JOIN files ON fid = docid.  The *)
(* full-text match is the index's own: matched is the set of names the     *)
(* search text matches.                                                    *)
(***************************************************************************)
Names == {m.name : m \in Metas}

match_fids(d, matched) ==
    {e.docid : e \in {x \in BagToSet(d.fnames) : x.name \in matched}} \cap DOMAIN d.files

(***************************************************************************)
(* db_search_files.  A search tree is an arena: node 1 is the root, the    *)
(* children of node p are 2p and 2p+1 and its parent is p \div 2 (0 is the *)
(* null pointer).  The search text is the sequence of the pieces strcat    *)
(* and strncat append.                                                     *)
(***************************************************************************)
MAX_NAME_TERM_LEN == 1024

left(p) == 2 * p

right(p) == 2 * p + 1

parent(p) == p \div 2

OpTypes == {"ST_AND", "ST_OR", "ST_NOT"}

\* (ST_AND <= type) && (ST_NOT >= type)
is_op(type) == type \in OpTypes

IntTypes ==
    {"ST_MINSIZE", "ST_MAXSIZE", "ST_SRCAVAIL", "ST_SRCCOMLETE", "ST_MINBITRATE",
     "ST_MINLENGTH"}

StrTypes == {"ST_EXTENSION", "ST_CODEC", "ST_TYPE"}

\* the strings of the model's leaves and their lengths
StrLen(str) ==
    CASE str = "" -> 0
      [] str \in {"a", "b", "c"} -> 1
      [] str = "long" -> 1018
      [] str = "mp3" -> 3
      [] str = "xvid" -> 4
      [] str = "Audio" -> 5

TokLen(tok) ==
    CASE tok \in {"(", ")"} -> 1
      [] tok = " OR " -> 4
      [] tok \in {" AND ", " NOT "} -> 5
      [] OTHER -> StrLen(tok)

RECURSIVE BufLen(_)
BufLen(text) == IF text = <<>> THEN 0 ELSE TokLen(Head(text)) + BufLen(Tail(text))

Node(type, string_term, str_val, int_val) ==
    [type |-> type, string_term |-> string_term, str_val |-> str_val,
     str_len |-> StrLen(str_val), int_val |-> int_val,
     left_visited |-> FALSE, right_visited |-> FALSE]

StringLeaves == {Node("ST_STRING", FALSE, str, 0) : str \in {"a", "b", "c", "long"}}

FilterLeaves ==
    {Node("ST_EXTENSION", FALSE, "mp3", 0), Node("ST_CODEC", FALSE, "xvid", 0),
     Node("ST_TYPE", FALSE, "Audio", 0), Node("ST_EMPTY", FALSE, "", 0)}
    \cup {Node(t, FALSE, "", v) : t \in IntTypes, v \in {0, 1}}

OpNodes == {Node(t, st, "", 0) : t \in OpTypes, st \in BOOLEAN}

\* the nodes of the largest tree of string terms
MaxNodes == 5

\* the nodes of the largest tree with typed filters
MaxFilterNodes == 3

RECURSIVE SubTrees(_, _, _)
SubTrees(p, n, leaves) ==
    {p :> l : l \in leaves}
    \cup UNION {{(p :> o) @@ l @@ r :
                    o \in OpNodes,
                    l \in SubTrees(left(p), k, leaves),
                    r \in SubTrees(right(p), n - 1 - k, leaves)} : k \in 1..(n - 2)}

Trees ==
    SubTrees(1, MaxNodes, StringLeaves)
    \cup SubTrees(1, MaxFilterNodes, StringLeaves \cup FilterLeaves)

\* the DB_CHECK of name_len as it would be one off
fits_one_off(name_len) == name_len <= MAX_NAME_TERM_LEN + 1

\* DB_CHECK(params.name_len < sizeof params.name_term)
fits(name_len) == name_len < MAX_NAME_TERM_LEN + 1

\* params.name_len += n; DB_CHECK(...); strcat(params.name_term, tok)
grow(s, tok, n) ==
    LET len == s.name_len + n
    IN  IF fits(len)
        THEN [s EXCEPT !.name_len = len, !.name_term = Append(@, tok)]
        ELSE [s EXCEPT !.name_len = len, !.pc = "failed"]

\* the switch as it would be with ST_OR falling through to ST_NOT
oper_falls_through(type) ==
    CASE type = "ST_AND" -> " AND "
      [] type = "ST_OR" -> " NOT "
      [] type = "ST_NOT" -> " NOT "

\* the switch of lines 329-345
oper(type) ==
    CASE type = "ST_AND" -> " AND "
      [] type = "ST_OR" -> " OR "
      [] type = "ST_NOT" -> " NOT "

\* the switch as it would be if a slot once filled were kept
walk_leaf_keeps_first(s, p, n) ==
    CASE n.type = "ST_STRING" -> grow(s, n.str_val, n.str_len)
      [] n.type = "ST_EXTENSION" -> [s EXCEPT !.ext_node = IF @ = 0 THEN p ELSE @]
      [] n.type = "ST_CODEC" -> [s EXCEPT !.codec_node = IF @ = 0 THEN p ELSE @]
      [] n.type = "ST_MINSIZE" -> [s EXCEPT !.minsize = IF @ = 0 THEN n.int_val ELSE @]
      [] n.type = "ST_MAXSIZE" -> [s EXCEPT !.maxsize = IF @ = 0 THEN n.int_val ELSE @]
      [] n.type = "ST_SRCAVAIL" -> [s EXCEPT !.srcavail = IF @ = 0 THEN n.int_val ELSE @]
      [] n.type = "ST_SRCCOMLETE" ->
            [s EXCEPT !.srccomplete = IF @ = 0 THEN n.int_val ELSE @]
      [] n.type = "ST_MINBITRATE" ->
            [s EXCEPT !.minbitrate = IF @ = 0 THEN n.int_val ELSE @]
      [] n.type = "ST_MINLENGTH" -> [s EXCEPT !.minlength = IF @ = 0 THEN n.int_val ELSE @]
      [] n.type = "ST_TYPE" -> [s EXCEPT !.type_node = IF @ = 0 THEN p ELSE @]
      [] OTHER -> [s EXCEPT !.pc = "failed"]

\* a leaf: the switch of lines 360-395
walk_leaf(s, p, n) ==
    CASE n.type = "ST_STRING" -> grow(s, n.str_val, n.str_len)
      [] n.type = "ST_EXTENSION" -> [s EXCEPT !.ext_node = p]
      [] n.type = "ST_CODEC" -> [s EXCEPT !.codec_node = p]
      [] n.type = "ST_MINSIZE" -> [s EXCEPT !.minsize = n.int_val]
      [] n.type = "ST_MAXSIZE" -> [s EXCEPT !.maxsize = n.int_val]
      [] n.type = "ST_SRCAVAIL" -> [s EXCEPT !.srcavail = n.int_val]
      [] n.type = "ST_SRCCOMLETE" -> [s EXCEPT !.srccomplete = n.int_val]
      [] n.type = "ST_MINBITRATE" -> [s EXCEPT !.minbitrate = n.int_val]
      [] n.type = "ST_MINLENGTH" -> [s EXCEPT !.minlength = n.int_val]
      [] n.type = "ST_TYPE" -> [s EXCEPT !.type_node = p]
      [] OTHER -> [s EXCEPT !.pc = "failed"]

\* the loop as it would be if the second visit of an operator set
\* right_visited and stayed where it is
walk_step_skips_right(s0) ==
    LET p == s0.snode
        n == s0.tree[p]
        s == [s0 EXCEPT !.visits[p] = @ + 1]
    IN  IF is_op(n.type)
        THEN IF ~n.left_visited
             THEN LET s1 == IF n.string_term THEN grow(s, "(", 1) ELSE s
                  IN  IF s1.pc = "failed" THEN s1
                      ELSE [s1 EXCEPT !.tree[p].left_visited = TRUE, !.snode = left(p)]
             ELSE IF ~n.right_visited
             THEN [s EXCEPT !.tree[p].right_visited = TRUE]
             ELSE LET s1 == IF n.string_term THEN grow(s, ")", 1) ELSE s
                  IN  IF s1.pc = "failed" THEN s1 ELSE [s1 EXCEPT !.snode = parent(p)]
        ELSE LET s1 == walk_leaf(s, p, n)
             IN  IF s1.pc = "failed" THEN s1 ELSE [s1 EXCEPT !.snode = parent(p)]

\* one turn of the loop while (snode), lines 315-399
walk_step(s0) ==
    LET p == s0.snode
        n == s0.tree[p]
        s == [s0 EXCEPT !.visits[p] = @ + 1]
    IN  IF is_op(n.type)
        THEN IF ~n.left_visited
             THEN LET s1 == IF n.string_term THEN grow(s, "(", 1) ELSE s
                  IN  IF s1.pc = "failed" THEN s1
                      ELSE [s1 EXCEPT !.tree[p].left_visited = TRUE, !.snode = left(p)]
             ELSE IF ~n.right_visited
             THEN LET s1 == IF n.string_term
                            THEN grow(s, oper(n.type), TokLen(oper(n.type)))
                            ELSE s
                  IN  IF s1.pc = "failed" THEN s1
                      ELSE [s1 EXCEPT !.tree[p].right_visited = TRUE, !.snode = right(p)]
             ELSE LET s1 == IF n.string_term THEN grow(s, ")", 1) ELSE s
                  IN  IF s1.pc = "failed" THEN s1 ELSE [s1 EXCEPT !.snode = parent(p)]
        ELSE LET s1 == walk_leaf(s, p, n)
             IN  IF s1.pc = "failed" THEN s1 ELSE [s1 EXCEPT !.snode = parent(p)]

BaseQuery == " SELECT ... FROM fnames n JOIN files f ON f.fid = n.docid WHERE fnames MATCH ?"

\* the typed filters in the order of lines 401-427: the clause, whether the
\* slot is set, the value the clause binds
get_ed2k_file_type(str) == IF str = "Audio" THEN 1 ELSE 0

filter_clauses(s) ==
    <<[clause |-> " AND f.ext=?", set |-> s.ext_node # 0,
       val |-> IF s.ext_node # 0 THEN s.tree[s.ext_node].str_val ELSE ""],
      [clause |-> " AND f.mcodec=?", set |-> s.codec_node # 0,
       val |-> IF s.codec_node # 0 THEN s.tree[s.codec_node].str_val ELSE ""],
      [clause |-> " AND f.size>?", set |-> s.minsize # 0, val |-> s.minsize],
      [clause |-> " AND f.size<?", set |-> s.maxsize # 0, val |-> s.maxsize],
      [clause |-> " AND f.srcavail>?", set |-> s.srcavail # 0, val |-> s.srcavail],
      [clause |-> " AND f.srccomplete>?", set |-> s.srccomplete # 0, val |-> s.srccomplete],
      [clause |-> " AND f.mbitrate>?", set |-> s.minbitrate # 0, val |-> s.minbitrate],
      [clause |-> " AND f.mlength>?", set |-> s.minlength # 0, val |-> s.minlength],
      [clause |-> " AND f.type=?", set |-> s.type_node # 0,
       val |-> IF s.type_node # 0
               THEN get_ed2k_file_type(s.tree[s.type_node].str_val) ELSE 0]>>

\* the query as it would be if every clause were appended
build_query_all(s) ==
    LET fc == filter_clauses(s)
    IN  <<BaseQuery>> \o [i \in 1..Len(fc) |-> fc[i].clause] \o <<" LIMIT ?">>

\* the strcat calls of lines 401-428
build_query(s) ==
    LET fc  == filter_clauses(s)
        set == SelectSeq(fc, LAMBDA c : c.set)
    IN  <<BaseQuery>> \o [i \in 1..Len(set) |-> set[i].clause] \o <<" LIMIT ?">>

\* the binds as they would be if the limit were bound twice
bind_values_limit_twice(s) ==
    LET fc  == filter_clauses(s)
        set == SelectSeq(fc, LAMBDA c : c.set)
    IN  <<s.name_term>> \o [i \in 1..Len(set) |-> set[i].val] \o <<s.count, s.count>>

\* the binds as they would be with the limit one short
bind_values_short(s) ==
    LET fc  == filter_clauses(s)
        set == SelectSeq(fc, LAMBDA c : c.set)
    IN  <<s.name_term>> \o [i \in 1..Len(set) |-> set[i].val]
        \o <<IF s.count > 0 THEN s.count - 1 ELSE 0>>

\* the sqlite3_bind calls of lines 432-464
bind_values(s) ==
    LET fc  == filter_clauses(s)
        set == SelectSeq(fc, LAMBDA c : c.set)
    IN  <<s.name_term>> \o [i \in 1..Len(set) |-> set[i].val] \o <<s.count>>

\* what a clause of the query asks of a files row, given the value bound to it
clause_holds(clause, row, v) ==
    CASE clause = " AND f.ext=?" -> row.ext = v
      [] clause = " AND f.mcodec=?" -> row.mcodec = v
      [] clause = " AND f.size>?" -> row.size > v
      [] clause = " AND f.size<?" -> row.size < v
      [] clause = " AND f.srcavail>?" -> row.srcavail > v
      [] clause = " AND f.srccomplete>?" -> row.srccomplete > v
      [] clause = " AND f.mbitrate>?" -> row.mbitrate > v
      [] clause = " AND f.mlength>?" -> row.mlength > v
      [] clause = " AND f.type=?" -> row.type = v

\* the fids the query selects before its LIMIT: placeholder i takes binds[i]
query_fids(d, matched, query, binds) ==
    {fid \in match_fids(d, matched) :
        \A i \in 2..(Len(query) - 1) : clause_holds(query[i], d.files[fid], binds[i])}

\* (SELECT sid FROM sources WHERE fid=f.fid LIMIT 1), NULL read as 0
first_sid(d, fid) ==
    IF SrcRows(d.sources, fid) = <<>> THEN U64Zero ELSE SrcRows(d.sources, fid)[1].sid

\* the search_file of lines 468-501
search_file(d, fid) ==
    LET row == d.files[fid]
        sid == first_sid(d, fid)
    IN  [hash |-> row.hash, name |-> row.name, size |-> row.size, type |-> row.type,
         ext |-> row.ext, srcavail |-> row.srcavail, srccomplete |-> row.srccomplete,
         rating |-> row.rating, rated_count |-> row.rated_count,
         client_id |-> GET_SID_ID(sid), client_port |-> GET_SID_PORT(sid),
         media_length |-> row.mlength, media_bitrate |-> row.mbitrate,
         media_codec |-> row.mcodec]

\* the orders in which the statement can return the rows of a set of fids
RECURSIVE Orders(_)
Orders(fs) ==
    IF fs = {} THEN {<<>>}
    ELSE UNION {{<<f>> \o o : o \in Orders(fs \ {f})} : f \in fs}

\* the rows sqlite3_step returns: any limit of the selected rows, in any order
stmt_rows(d, matched, query, binds) ==
    LET fs    == query_fids(d, matched, query, binds)
        limit == Min(binds[Len(binds)], Cardinality(fs))
    IN  UNION {Orders(c) : c \in {x \in SUBSET fs : Cardinality(x) = limit}}

\* the catalogue the searches run on: two owners share song.mp3, one clip.avi
Song == CHOOSE f \in PubFiles : f.hash = H1 /\ f.name = "song.mp3" /\ f.complete = 1
Clip == CHOOSE f \in PubFiles : f.hash = H2 /\ f.name = "clip.avi" /\ f.complete = 0
Owner1 == CHOOSE o \in Owners : o.id[1] = 1
Owner2 == CHOOSE o \in Owners : o.id[1] = 2

SearchCatalog ==
    LET r1 == CHOOSE r \in db_share_files(EmptyDb, <<Song, Clip>>, Owner1) : TRUE
    IN  (CHOOSE r \in db_share_files(r1.db, <<Song>>, Owner2) : TRUE).db

\* db_search_files is entered: memset(&params, 0, sizeof params)
search_enter(tree, count) ==
    [pc |-> "walk", tree |-> tree, snode |-> 1, max |-> count, count |-> count,
     name_term |-> <<>>, name_len |-> 0,
     minsize |-> 0, maxsize |-> 0, srcavail |-> 0, srccomplete |-> 0,
     minbitrate |-> 0, minlength |-> 0,
     ext_node |-> 0, codec_node |-> 0, type_node |-> 0,
     query |-> <<>>, binds |-> <<>>, stmt |-> "null", buf |-> <<>>, ret |-> 1,
     visits |-> [p \in DOMAIN tree |-> 0], hits |-> 0]

SearchInit ==
    /\ files = SearchCatalog.files
    /\ sources = SearchCatalog.sources
    /\ fnames = SearchCatalog.fnames
    /\ last = [op |-> "search"]
    /\ thr = <<>>
    /\ \E tree \in Trees, count \in Counts : srch = search_enter(tree, count)

\* the label failed: of db_search_files
search_failed(s) ==
    [s EXCEPT !.pc = "done", !.ret = 0,
              !.stmt = IF @ = "live" THEN "finalized" ELSE @]

WalkStep ==
    /\ srch.pc = "walk"
    /\ srch.snode # 0
    /\ LET s == walk_step(srch)
       IN  srch' = IF s.pc = "failed" THEN search_failed(s) ELSE s
    /\ UNCHANGED <<files, sources, fnames, last, thr>>

\* the walk is over: lines 401-430
BuildQuery ==
    /\ srch.pc = "walk"
    /\ srch.snode = 0
    /\ srch' = [srch EXCEPT !.pc = "exec", !.query = build_query(srch), !.stmt = "live"]
    /\ UNCHANGED <<files, sources, fnames, last, thr>>

\* lines 432-511, no DB_CHECK failing
ExecQuery ==
    /\ srch.pc = "exec"
    /\ \E matched \in SUBSET Names :
        LET binds == bind_values(srch)
        IN  \E rows \in stmt_rows(db, matched, srch.query, binds) :
            LET i == Min(Len(rows), srch.count)
            IN  srch' = [srch EXCEPT
                            !.pc = "done", !.binds = binds,
                            !.buf = [j \in 1..i |-> search_file(db, rows[j])],
                            !.count = i, !.ret = 1,
                            !.hits = Cardinality(query_fids(db, matched, srch.query, binds))]
    /\ UNCHANGED <<files, sources, fnames, last, thr>>

\* sqlite3_prepare_v2, a sqlite3_bind or sqlite3_step fails: goto failed,
\* after the rows written so far
SearchFail ==
    /\ \/ srch.pc = "walk" /\ srch.snode = 0
       \/ srch.pc = "exec"
    /\ \E matched \in SUBSET Names :
        LET binds == bind_values(srch)
            query == IF srch.pc = "exec" THEN srch.query ELSE build_query(srch)
        IN  \E rows \in stmt_rows(db, matched, query, binds) :
            \E i \in 0..Len(rows) :
                /\ srch.pc = "walk" => i = 0
                /\ i < srch.count \/ i = 0
                /\ srch' = search_failed(
                       [srch EXCEPT !.query = query,
                                    !.buf = [j \in 1..i |-> search_file(db, rows[j])]])
    /\ UNCHANGED <<files, sources, fnames, last, thr>>

SearchNext == WalkStep \/ BuildQuery \/ ExecQuery \/ SearchFail

SpecSearch == SearchInit /\ [][SearchNext]_vars

\* db_search_files runs on: the loop of the walk takes its next turn
SpecSearchFair == SpecSearch /\ WF_vars(WalkStep)

Count(srcs, fid, P(_)) == Len(SelectSeq(SrcRows(srcs, fid), P))

RECURSIVE SumRating(_)
SumRating(rows) == IF rows = <<>> THEN 0 ELSE Head(rows).rating + SumRating(Tail(rows))

\* C1: with one thread and no failing write, after every completed call each
\* files row has srcavail = the number of sources rows of its fid, srccomplete
\* = the number of those with complete = 1, rating = the sum of their ratings
AggregateInv ==
    \A fid \in DOMAIN files :
        /\ files[fid].srcavail = Len(SrcRows(sources, fid))
        /\ files[fid].srccomplete = Count(sources, fid, LAMBDA r : r.complete = 1)
        /\ files[fid].rating = SumRating(SrcRows(sources, fid))

\* a file that keeps a rated, incomplete source after another peer left
AggregateWitness ==
    /\ last.op = "remove"
    /\ \E fid \in DOMAIN files :
        /\ files[fid].srcavail = 1 /\ files[fid].srccomplete = 0 /\ files[fid].rating = 3
        /\ Len(sources) = 1

\* C2: after every completed call each files row has rated_count = the number
\* of sources rows of its fid whose rating is non-zero
RatedCountInv ==
    \A fid \in DOMAIN files :
        files[fid].rated_count = Count(sources, fid, LAMBDA r : r.rating # 0)

\* C4 with one thread and no failing write: once db_remove_source has deleted
\* the last sources row of a file, the files row is gone with it: no search
\* returns the file and db_get_sources for its hash returns no source, for as
\* long as the file has no source
OrphanCleanup ==
    \A fid \in Fids :
        SrcRows(sources, fid) = <<>> =>
            /\ fid \notin DOMAIN files
            /\ \A matched \in SUBSET Names : fid \notin match_fids(db, matched)
            /\ \A h \in Hashes, c \in Counts :
                FidOf[h] = fid => db_get_sources(db, h, c).count = 0

\* db_remove_source has just deleted the last sources row of a file
OrphanWitness == last.op = "remove" /\ last.gone # {}

\* C4: the statement of db_remove_source that deletes the last sources row of
\* a file deletes its files row too, so that no search returns the file
LastSourceRemoved ==
    [][\A fid \in Fids :
        (SrcRows(sources, fid) # <<>> /\ SrcRows(sources', fid) = <<>>) =>
            /\ fid \notin DOMAIN files'
            /\ \A matched \in SUBSET Names : fid \notin match_fids(db', matched)]_vars

AllIdle == \A t \in Threads : thr[t].pc = "idle"

\* C3: whatever the interleaving of the statements of two threads' calls on
\* one file_id, once every call has returned (none of them failed) a files
\* row exists for every fid that has sources rows, and its srcavail is the
\* number of those rows
InterleavedAggregate ==
    (AllIdle /\ ~last.failed) =>
        \A fid \in Fids :
            SrcRows(sources, fid) # <<>> =>
                /\ fid \in DOMAIN files
                /\ files[fid].srcavail = Len(SrcRows(sources, fid))

\* C5: in no state, between the statements of a call or after a failed call,
\* can a search return a files row that has no sources row
NoSourcelessHit ==
    \A matched \in SUBSET Names :
        \A fid \in match_fids(db, matched) : SrcRows(sources, fid) # <<>>

Meta(row) ==
    [hash |-> row.hash, name |-> row.name, ext |-> row.ext, size |-> row.size,
     type |-> row.type, mlength |-> row.mlength, mbitrate |-> row.mbitrate,
     mcodec |-> row.mcodec]

\* a call of db_share_files that announced one file, fid, with the metadata
\* its files row held already, the file having one source, of another owner
Reannounce(fid) ==
    /\ last'.op = "share"
    /\ Len(last'.trace) = 1
    /\ last'.trace[1].fid = fid
    /\ last'.trace[1].same
    /\ Len(SrcRows(sources, fid)) = 1
    /\ SrcRows(sources, fid)[1].sid # sources'[Len(sources')].sid

\* C6: announcing a file a second time with identical metadata, by another
\* owner, keeps the one files row with its name, extension, size, type, hash
\* and media fields, leaves two sources rows, and runs SHARE_UPD, not SHARE_INS
UpsertSame ==
    [][\A fid \in Fids :
        Reannounce(fid) =>
            /\ fid \in DOMAIN files /\ fid \in DOMAIN files'
            /\ DOMAIN files' = DOMAIN files
            /\ Meta(files'[fid]) = Meta(files[fid])
            /\ Len(SrcRows(sources', fid)) = 2
            /\ last'.trace[1].path = "SHARE_UPD"]_vars

\* a file announced twice with the same metadata, by two owners
UpsertWitness ==
    /\ last.op = "share"
    /\ Len(last.trace) = 1
    /\ last.trace[1].same
    /\ \E fid \in DOMAIN files :
        /\ last.trace[1].fid = fid
        /\ Len(SrcRows(sources, fid)) = 2
        /\ SrcRows(sources, fid)[1].sid # SrcRows(sources, fid)[2].sid

IsLeaf(tree, p) == left(p) \notin DOMAIN tree

\* the text of the subtree at p, fully parenthesised, in order
RECURSIVE Render(_, _)
Render(tree, p) ==
    IF IsLeaf(tree, p)
    THEN IF tree[p].type = "ST_STRING" THEN <<tree[p].str_val>> ELSE <<>>
    ELSE IF tree[p].string_term
         THEN <<"(">> \o Render(tree, left(p))
              \o <<CASE tree[p].type = "ST_AND" -> " AND "
                     [] tree[p].type = "ST_OR" -> " OR "
                     [] tree[p].type = "ST_NOT" -> " NOT ">>
              \o Render(tree, right(p)) \o <<")">>
         ELSE Render(tree, left(p)) \o Render(tree, right(p))

\* string-term leaves under operators marked string_term
PureStrings(tree) ==
    \A p \in DOMAIN tree :
        IF IsLeaf(tree, p) THEN tree[p].type = "ST_STRING" ELSE tree[p].string_term

WalkOver == srch.pc \in {"walk", "exec", "done"} /\ srch.snode = 0

\* C7: a search that returns 1, asked for N = *count rows: with M > N rows
\* matching it emits N results and leaves *count at N, the limit, which is
\* how the caller learns that more may exist; with M < N it emits M results
\* and sets *count to M
LimitSemantics ==
    (srch.pc = "done" /\ srch.ret = 1) =>
        /\ srch.hits > srch.max => Len(srch.buf) = srch.max /\ srch.count = srch.max
        /\ srch.hits < srch.max => Len(srch.buf) = srch.hits /\ srch.count = srch.hits

\* two files match a search limited to one
LimitWitness ==
    /\ srch.pc = "done" /\ srch.ret = 1
    /\ srch.hits = 2 /\ srch.max = 1 /\ Len(srch.buf) = 1

\* C8: for a tree of string-term leaves and string_term operators the search
\* text is the fully parenthesised in-order rendering of the tree
RenderGrouped ==
    (WalkOver /\ PureStrings(srch.tree)) => srch.name_term = Render(srch.tree, 1)

\* (a AND b) OR c, which flattened would read like a AND (b OR c)
RenderWitness ==
    /\ WalkOver
    /\ srch.name_term = <<"(", "(", "a", " AND ", "b", ")", " OR ", "c", ")">>
    /\ srch.tree[1].type = "ST_OR" /\ srch.tree[2].type = "ST_AND"

DbUntouched ==
    /\ files = SearchCatalog.files
    /\ sources = SearchCatalog.sources
    /\ fnames = SearchCatalog.fnames

\* C9: the search text never outgrows its MAX_NAME_TERM_LEN characters, and
\* a tree whose rendering is longer makes db_search_files return 0 with no
\* query prepared, no result written and no table changed
BoundEnforced ==
    /\ BufLen(srch.name_term) <= MAX_NAME_TERM_LEN
    /\ DbUntouched
    /\ BufLen(Render(srch.tree, 1)) > MAX_NAME_TERM_LEN =>
        /\ srch.stmt = "null" /\ srch.buf = <<>> /\ srch.query = <<>>
        /\ srch.pc \in {"walk", "done"}
        /\ srch.pc = "done" => srch.ret = 0

\* the walk filled the buffer to its last character and then failed
BoundWitness ==
    /\ srch.pc = "done" /\ srch.ret = 0
    /\ BufLen(srch.name_term) = MAX_NAME_TERM_LEN
    /\ srch.name_len > MAX_NAME_TERM_LEN
    /\ BufLen(Render(srch.tree, 1)) > MAX_NAME_TERM_LEN

\* the clause of each typed filter
KindClause ==
    [ST_EXTENSION |-> " AND f.ext=?", ST_CODEC |-> " AND f.mcodec=?",
     ST_MINSIZE |-> " AND f.size>?", ST_MAXSIZE |-> " AND f.size<?",
     ST_SRCAVAIL |-> " AND f.srcavail>?", ST_SRCCOMLETE |-> " AND f.srccomplete>?",
     ST_MINBITRATE |-> " AND f.mbitrate>?", ST_MINLENGTH |-> " AND f.mlength>?",
     ST_TYPE |-> " AND f.type=?"]

PredCount(query, kind) ==
    Cardinality({i \in DOMAIN query : query[i] = KindClause[kind]})

LeavesOf(tree, kind) == {p \in DOMAIN tree : tree[p].type = kind}

\* the leaves of the subtree at p, left to right
RECURSIVE InOrder(_, _)
InOrder(tree, p) ==
    IF IsLeaf(tree, p) THEN <<p>>
    ELSE InOrder(tree, left(p)) \o InOrder(tree, right(p))

\* the leaf of a kind the walk reaches last (0: the tree has none)
LastLeaf(tree, kind) ==
    LET ps == SelectSeq(InOrder(tree, 1), LAMBDA p : tree[p].type = kind)
    IN  IF ps = <<>> THEN 0 ELSE ps[Len(ps)]

QueryBuilt == srch.pc \in {"exec", "done"} /\ srch.query # <<>>

\* C10 as claimed: the query holds one predicate for each kind of typed
\* filter the tree holds, whatever its value, and none for the others
OnePredicatePerFilter ==
    QueryBuilt =>
        \A kind \in StrTypes \cup IntTypes :
            PredCount(srch.query, kind) =
                IF LeavesOf(srch.tree, kind) # {} THEN 1 ELSE 0

\* C10 as amended: one predicate for each of extension, codec and file-type
\* the tree holds; for a numeric kind, one predicate when the leaf of that
\* kind reached last has a value other than 0, none when that value is 0;
\* none for a kind the tree does not hold
FilterPredicates ==
    QueryBuilt =>
        /\ \A kind \in StrTypes :
            PredCount(srch.query, kind) =
                IF LeavesOf(srch.tree, kind) # {} THEN 1 ELSE 0
        /\ \A kind \in IntTypes :
            PredCount(srch.query, kind) =
                IF /\ LastLeaf(srch.tree, kind) # 0
                   /\ srch.tree[LastLeaf(srch.tree, kind)].int_val # 0
                THEN 1 ELSE 0

\* a min-size leaf of value 0 beside an extension leaf: one predicate only
FilterWitness ==
    /\ QueryBuilt
    /\ LeavesOf(srch.tree, "ST_MINSIZE") # {}
    /\ LeavesOf(srch.tree, "ST_EXTENSION") # {}
    /\ srch.query = <<BaseQuery, " AND f.ext=?", " LIMIT ?">>

\* what params holds for a kind of typed filter: a node for extension,
\* codec and file-type, a value for the numeric kinds
Slot(s, kind) ==
    CASE kind = "ST_EXTENSION" -> s.ext_node
      [] kind = "ST_CODEC" -> s.codec_node
      [] kind = "ST_TYPE" -> s.type_node
      [] kind = "ST_MINSIZE" -> s.minsize
      [] kind = "ST_MAXSIZE" -> s.maxsize
      [] kind = "ST_SRCAVAIL" -> s.srcavail
      [] kind = "ST_SRCCOMLETE" -> s.srccomplete
      [] kind = "ST_MINBITRATE" -> s.minbitrate
      [] kind = "ST_MINLENGTH" -> s.minlength

\* the value a predicate of a kind is to take from leaf p
LeafValue(tree, kind, p) ==
    CASE kind \in IntTypes -> tree[p].int_val
      [] kind = "ST_TYPE" -> IF tree[p].str_val = "Audio" THEN 1 ELSE 0
      [] OTHER -> tree[p].str_val

\* the value bound to the predicate of a kind (the query holds one)
BoundTo(query, binds, kind) ==
    binds[CHOOSE i \in DOMAIN query : query[i] = KindClause[kind]]

\* the kinds of typed filter the tree holds more than once
Repeated(tree) ==
    {kind \in StrTypes \cup IntTypes : Cardinality(LeavesOf(tree, kind)) > 1}

\* the walk went to failed: before the query was prepared
CompileFailed == srch.pc = "done" /\ srch.ret = 0 /\ srch.snode # 0

\* nothing but its typed filters can make the walk of the tree fail
Compilable(tree) ==
    /\ BufLen(Render(tree, 1)) <= MAX_NAME_TERM_LEN
    /\ \A p \in DOMAIN tree :
        tree[p].type \in OpTypes \cup StrTypes \cup IntTypes \cup {"ST_STRING"}

\* C11: a tree that holds a kind of typed filter more than once compiles, and
\* of the leaves of that kind the one the left-to-right walk reaches last
\* fills the slot of the kind, so that the query holds at most one predicate
\* for the kind and the predicate is bound to the value of that leaf
LastOccurrenceWins ==
    \A kind \in Repeated(srch.tree) :
        LET p == LastLeaf(srch.tree, kind)
        IN  /\ Compilable(srch.tree) => ~CompileFailed
            /\ WalkOver =>
                Slot(srch, kind) = IF kind \in IntTypes THEN srch.tree[p].int_val ELSE p
            /\ QueryBuilt => PredCount(srch.query, kind) <= 1
            /\ (srch.pc = "done" /\ srch.ret = 1 /\ PredCount(srch.query, kind) = 1) =>
                BoundTo(srch.query, srch.binds, kind) = LeafValue(srch.tree, kind, p)

\* min-size 0 to the left of min-size 1: the search ran with f.size > 1
LastOccurrenceWitness ==
    /\ srch.pc = "done" /\ srch.ret = 1
    /\ {2, 3} \subseteq DOMAIN srch.tree
    /\ srch.tree[2].type = "ST_MINSIZE" /\ srch.tree[2].int_val = 0
    /\ srch.tree[3].type = "ST_MINSIZE" /\ srch.tree[3].int_val = 1
    /\ srch.query = <<BaseQuery, " AND f.size>?", " LIMIT ?">>
    /\ srch.binds[2] = 1

\* the sources rows the entries of a batch ask for, in the order of the batch
RECURSIVE SrcOf(_, _)
SrcOf(batch, owner) ==
    IF batch = <<>> THEN <<>>
    ELSE (IF Head(batch).name_len = 0 THEN <<>>
          ELSE <<[fid |-> FidOf[Head(batch).hash], sid |-> MAKE_SID(owner),
                  complete |-> Head(batch).complete, rating |-> Head(batch).rating]>>)
         \o SrcOf(Tail(batch), owner)

\* the files rows other than that of fid are those of d
SameButFor(d, fid) ==
    /\ DOMAIN files' \ {fid} = DOMAIN d.files \ {fid}
    /\ \A g \in DOMAIN d.files \ {fid} : files'[g] = d.files[g]

\* C12: a write failing at entry k of a batch, db_share_files returns 0; the
\* catalogue holds what a call for entries 1..k-1 alone would have left, a
\* sources row for each of them, with what the statements of entry k that
\* ran before the failing one wrote (SHARE_INS: a files row without source);
\* it holds no row of entry k+1 or later
PartialBatchKept ==
    [][(last'.op = "share" /\ last'.ret = 0) =>
        LET batch == last'.batch
            k     == last'.k
            pre   == SubSeq(batch, 1, k - 1)
            f     == batch[k]
            fid   == FidOf[f.hash]
        IN  /\ k \in 1..Len(batch) /\ f.name_len # 0
            /\ sources' = sources \o SrcOf(pre, last'.owner)
            /\ \E r \in db_share_files(db, pre, last'.owner) :
                /\ sources' = r.db.sources
                /\ SameButFor(r.db, fid)
                /\ \/ /\ last'.at \in {"SHARE_UPD", "SHARE_INS"}
                      /\ files' = r.db.files /\ fnames' = r.db.fnames
                      /\ last'.at = "SHARE_INS" => fid \notin DOMAIN files'
                   \/ /\ last'.at = "SHARE_SRC"
                      /\ IF fid \in DOMAIN r.db.files
                         THEN fid \in DOMAIN files' =>
                                  files'[fid] = share_upd_set(r.db.files[fid], f)
                         ELSE /\ fid \in DOMAIN files'
                              /\ files'[fid].srcavail = 0
                              /\ files'[fid].name = f.name]_vars

\* the second entry of a batch failed at SHARE_SRC: the file of the first has
\* its source, the file of the second has a row and no source
PartialBatchWitness ==
    /\ last.op = "share" /\ last.ret = 0
    /\ last.k = 2 /\ last.at = "SHARE_SRC"
    /\ FidOf[last.batch[1].hash] # FidOf[last.batch[2].hash]
    /\ LET g == FidOf[last.batch[1].hash]
           h == FidOf[last.batch[2].hash]
       IN  /\ g \in DOMAIN files /\ files[g].srcavail = 1
           /\ Len(SrcRows(sources, g)) = 1
           /\ h \in DOMAIN files /\ files[h].srcavail = 0
           /\ SrcRows(sources, h) = <<>>

\* the entries of a batch that have a name
Named(batch) == SelectSeq(batch, LAMBDA f : f.name_len # 0)

\* C13: db_share_files returning 1 has skipped the entries with an empty
\* name and gone on with the others: it has run its statements once for each
\* named entry, added one sources row for each of them and none for an
\* unnamed one, and left the catalogue as a call for the named entries alone
\* leaves it (untouched when the batch names no file)
EmptyNamesSkipped ==
    [][(last'.op = "share" /\ last'.ret = 1) =>
        LET named == Named(last'.batch)
        IN  /\ Len(last'.trace) = Len(named)
            /\ \A i \in DOMAIN named : last'.trace[i].fid = FidOf[named[i].hash]
            /\ sources' = sources \o SrcOf(named, last'.owner)
            /\ \A fid \in DOMAIN files' \ DOMAIN files :
                \E i \in DOMAIN named : fid = FidOf[named[i].hash]
            /\ \E r \in db_share_files(db, named, last'.owner) :
                files' = r.db.files /\ fnames' = r.db.fnames
            /\ named = <<>> => UNCHANGED <<files, sources, fnames>>]_vars

\* a batch of an unnamed entry and then a named one returned 1: the named
\* file has its row and its source, and nothing else was written
EmptyNamesWitness ==
    /\ last.op = "share" /\ last.ret = 1
    /\ Len(last.batch) = 2
    /\ last.batch[1].name_len = 0 /\ last.batch[2].name_len # 0
    /\ Len(last.trace) = 1
    /\ DOMAIN files = {FidOf[last.batch[2].hash]}
    /\ Len(sources) = 1

\* the peer a sources row stands for
PeerOf(row) == CHOOSE o \in Owners : MAKE_SID(o) = row.sid

\* C14: db_get_sources asked for max sources of a hash returns 1, sets *count
\* to the smaller of max and the number of sources rows of the file, and
\* writes that many sources, each the address and port of a sources row
\* stored for the file (the first rows, in storage order)
GetSourcesBounded ==
    last.op = "get" =>
        LET rows == SrcRows(sources, FidOf[last.hash])
            n    == IF last.max < Len(rows) THEN last.max ELSE Len(rows)
        IN  /\ last.out.ret = 1
            /\ last.out.count = n
            /\ Len(last.out.sources) = n
            /\ \A i \in 1..n :
                /\ last.out.sources[i].ip = PeerOf(rows[i]).id
                /\ last.out.sources[i].port = PeerOf(rows[i]).port

\* one source asked of a file that two peers serve
GetSourcesWitness ==
    /\ last.op = "get" /\ last.max = 1
    /\ Len(SrcRows(sources, FidOf[last.hash])) = 2
    /\ last.out.count = 1
    /\ SrcRows(sources, FidOf[last.hash])[1].sid # SrcRows(sources, FidOf[last.hash])[2].sid

\* the name index holds one entry for each files row, with its fid and name
IndexOf(fs) == SetToBag({[docid |-> fid, name |-> fs[fid].name] : fid \in DOMAIN fs})

\* C15 with one thread and no failing write: after every call fnames holds
\* exactly one entry for each files row, under its fid and with its name
FnamesSynced == fnames = IndexOf(files)

\* a file was announced again under another name
FnamesWitness ==
    /\ last.op = "share"
    /\ \E i \in DOMAIN last.trace :
        /\ last.trace[i].path = "SHARE_UPD" /\ ~last.trace[i].same
        /\ last.trace[i].fid \in DOMAIN files
    /\ fnames # EmptyBag

\* C15: once every call of every thread has returned, none having failed,
\* fnames holds exactly one entry for each files row, under its fid and with
\* its name
FnamesSyncedAfterCalls == (AllIdle /\ ~last.failed) => fnames = IndexOf(files)

\* C16: in every sequence of db_open and db_close calls of a thread, db_close
\* (called by the thread, or by db_open on its way out) passes to
\* sqlite3_finalize only templates that are compiled: none it finalized before
CloseFinalizesLive == last.twice = {}

\* C17: GET_SID_ID and GET_SID_PORT give back the id and the port MAKE_SID
\* packed; the id is in bits 32..63 of the source id, the port in bits 0..15,
\* bits 16..31 are 0; no other peer has the same source id
SidLossless ==
    /\ last.op \in {"packed", "unpacked"} =>
        /\ last.sid[1] = last.x.port
        /\ last.sid[2] = 0
        /\ <<last.sid[3], last.sid[4]>> = last.x.id
        /\ \A y \in SidPeers : MAKE_SID(y) = last.sid => y = last.x
    /\ last.op = "unpacked" => last.id = last.x.id /\ last.port = last.x.port

\* 255.255.255.255:65535 packed and unpacked: every bit of the id and of the
\* port is set
SidWitness ==
    /\ last.op = "unpacked"
    /\ last.x = [id |-> <<65535, 65535>>, port |-> 65535]
    /\ last.sid = <<65535, 0, 65535, 65535>>
    /\ last.id = <<65535, 65535>> /\ last.port = 65535

\* the visits the walk owes a node: three to an operator, one to a leaf
VisitsDue(tree, p) == IF IsLeaf(tree, p) THEN 1 ELSE 3

\* C18: the walk of a tree comes to an end (at the null parent of the root,
\* or at a failing DB_CHECK); it reaches the null parent of the root exactly
\* when the root has had its last visit, and by then it has visited every
\* operator three times and every leaf once, no node ever more often
WalkVisitsAndEnds ==
    /\ <>(srch.snode = 0 \/ srch.pc = "done")
    /\ [](/\ \A p \in DOMAIN srch.tree : srch.visits[p] <= VisitsDue(srch.tree, p)
          /\ srch.snode = 0 =>
                \A p \in DOMAIN srch.tree : srch.visits[p] = VisitsDue(srch.tree, p)
          /\ (srch.pc = "walk" /\ srch.snode # 0) =>
                srch.visits[1] < VisitsDue(srch.tree, 1))

\* the walk of a tree of two operators and three leaves is over
WalkWitness ==
    /\ srch.pc = "walk" /\ srch.snode = 0
    /\ Cardinality(DOMAIN srch.tree) = 5
    /\ srch.visits[1] = 3
    /\ \E p \in DOMAIN srch.tree : p > 1 /\ srch.visits[p] = 3
    /\ Cardinality({p \in DOMAIN srch.tree : srch.visits[p] = 1}) = 3

\* the '?' of a piece of the query
Placeholders(piece) ==
    CASE piece = BaseQuery -> 1
      [] piece = " LIMIT ?" -> 1
      [] piece \in {KindClause[kind] : kind \in StrTypes \cup IntTypes} -> 1
      [] OTHER -> 0

RECURSIVE PlaceholderCount(_)
PlaceholderCount(query) ==
    IF query = <<>> THEN 0 ELSE Placeholders(Head(query)) + PlaceholderCount(Tail(query))

\* the order of the typed filters in the query
KindOrder ==
    <<"ST_EXTENSION", "ST_CODEC", "ST_MINSIZE", "ST_MAXSIZE", "ST_SRCAVAIL",
      "ST_SRCCOMLETE", "ST_MINBITRATE", "ST_MINLENGTH", "ST_TYPE">>

\* the kind of the filter a piece of the query is the clause of
KindAt(query, i) == CHOOSE j \in DOMAIN KindOrder : KindClause[KindOrder[j]] = query[i]

\* C19: a search that ran its query has bound as many values as the query
\* has placeholders, the i-th value to the i-th placeholder: the search text
\* first, then for each filter clause, which stand in the order extension,
\* codec, size-min, size-max, src-avail-min, src-complete-min, bitrate-min,
\* length-min, type, the value of that filter, and the limit last
BindsMatchPlaceholders ==
    (srch.pc = "done" /\ srch.ret = 1) =>
        LET n == Len(srch.query) IN
        /\ Len(srch.binds) = PlaceholderCount(srch.query)
        /\ n = PlaceholderCount(srch.query)
        /\ srch.query[1] = BaseQuery /\ srch.binds[1] = srch.name_term
        /\ srch.query[n] = " LIMIT ?" /\ srch.binds[n] = srch.max
        /\ \A i \in 2..(n - 1) :
            /\ \E kind \in StrTypes \cup IntTypes : srch.query[i] = KindClause[kind]
            /\ LET kind == KindOrder[KindAt(srch.query, i)]
               IN  srch.binds[i] = LeafValue(srch.tree, kind, LastLeaf(srch.tree, kind))
            /\ i > 2 => KindAt(srch.query, i - 1) < KindAt(srch.query, i)

\* a search by codec and minimal length: xvid is bound to f.mcodec, 1 to
\* f.mlength
BindsWitness ==
    /\ srch.pc = "done" /\ srch.ret = 1
    /\ srch.query = <<BaseQuery, " AND f.mcodec=?", " AND f.mlength>?", " LIMIT ?">>
    /\ srch.binds[2] = "xvid" /\ srch.binds[3] = 1

\* C20: every statement db_search_files has prepared is finalized when the
\* call returns, whether it returns 1 or 0
StmtFinalized == srch.pc = "done" => srch.stmt # "live"

\* how often peer clnt stands in the sources db_get_sources has returned
Returned(out, clnt) ==
    Cardinality({i \in DOMAIN out.sources :
                    /\ out.sources[i].ip = clnt.id
                    /\ out.sources[i].port = clnt.port})

\* the second announcement has added a second sources row of the same fid
\* and sid, and srcavail counts the peer twice
SecondRowInserted ==
    last.op = "again" =>
        /\ Len(OwnRows(sources, FidOf[last.hash], last.peer)) = 2
        /\ files[FidOf[last.hash]].srcavail = last.before.srcavail + 2
        /\ files[FidOf[last.hash]].srcavail = last.first.srcavail + 1

\* db_get_sources asked for every source of the file returns the peer twice
PeerReturnedTwice ==
    (last.op = "get" /\ last.max >= Len(SrcRows(sources, FidOf[last.hash]))) =>
        Returned(last.out, last.peer) = 2

\* one db_remove_source has deleted both rows of the peer
BothRowsDeleted ==
    last.op = "removed" =>
        /\ OwnRows(sources, FidOf[last.hash], last.peer) = <<>>
        /\ last.gone >= 2

\* the part of C21 that leaves rated_count aside: the second row, the peer
\* returned twice, both rows deleted by one db_remove_source, and srcavail,
\* srccomplete and rating back at their values of before
DuplicateSourceRows ==
    /\ SecondRowInserted
    /\ PeerReturnedTwice
    /\ BothRowsDeleted
    /\ last.op = "removed" =>
           LET c == Counters(db, FidOf[last.hash]) IN
           /\ c.srcavail = last.before.srcavail
           /\ c.srccomplete = last.before.srccomplete
           /\ c.rating = last.before.rating

\* another peer holds the file, and the peer that announced it twice is gone
DuplicateSourceWitness ==
    /\ last.op = "removed" /\ last.gone = 2
    /\ FidOf[last.hash] \in DOMAIN files
    /\ files[FidOf[last.hash]].srcavail = 1

\* C21: a peer announcing a file it has already announced gets a second
\* sources row of the same fid and sid, srcavail counts it twice,
\* db_get_sources returns it twice, and one db_remove_source of the peer
\* deletes both rows and puts srcavail, srccomplete, rating and rated_count
\* of the files row back at the values they had before the peer's first
\* announcement
DuplicateSourceUndone ==
    /\ SecondRowInserted
    /\ PeerReturnedTwice
    /\ BothRowsDeleted
    /\ last.op = "removed" => Counters(db, FidOf[last.hash]) = last.before

====
